---- MODULE Spec2Model ----
(***************************************************************************)
(* MuleShield synthetic transaction generator (src/data/generate_data.py). *)
(* The script is modelled as a sequential state machine: one action per    *)
(* loop head, loop body and loop exit, and one action for the final sort.  *)
(* Random draws are existentially quantified inputs.  Amounts are exact    *)
(* rationals [n, per] meaning n/per rupees; timestamps are the digit       *)
(* strings strftime writes (separators dropped), compared as strings.      *)
(***************************************************************************)
EXTENDS Integers, Sequences, FiniteSets, TLC

VARIABLES focus, pc, ai, acc, si, n_left, n_credits, amount,
          criminal_receivers, victim_senders, criminal_handlers,
          attacker_destinations, takeover_day, transactions, txn_counter, df

vars == <<focus, pc, ai, acc, si, n_left, n_credits, amount,
          criminal_receivers, victim_senders, criminal_handlers,
          attacker_destinations, takeover_day, transactions, txn_counter, df>>

\* ---- Bounds (scaled-down population and loop sizes) ----------------------
N_NORMAL == 2
N_MULE == 3
NCriminalPool == 2
NHandlerPool == 2
NAttackerPool == 2
NForwardPool == 1
MaxBatch == 2
MaxSample == 2

N_EXTERNAL == NCriminalPool + NHandlerPool + NAttackerPool

\* ---- Generic helpers -----------------------------------------------------
Range(s) == {s[i] : i \in 1..Len(s)}

Min(a, b) == IF a <= b THEN a ELSE b

RECURSIVE Str(_)
Str(n) == IF n < 10 THEN <<n>> ELSE Str(n \div 10) \o <<n % 10>>

RECURSIVE ZFill(_, _)
ZFill(s, w) == IF Len(s) >= w THEN s ELSE ZFill(<<0>> \o s, w)

RECURSIVE DigitsValue(_)
DigitsValue(s) == IF Len(s) = 0 THEN 0
                  ELSE 10 * DigitsValue(SubSeq(s, 1, Len(s) - 1)) + s[Len(s)]

RECURSIVE LexLess(_, _)
LexLess(a, b) ==
  IF Len(a) = 0 THEN Len(b) > 0
  ELSE IF Len(b) = 0 THEN FALSE
  ELSE IF a[1] < b[1] THEN TRUE
  ELSE IF a[1] > b[1] THEN FALSE
  ELSE LexLess(Tail(a), Tail(b))

LexLeq(a, b) == a = b \/ LexLess(a, b)

\* f"{prefix}{str(i).zfill(w)}"
Id(prefix, i, w) == [pfx |-> prefix, num |-> ZFill(Str(i), w)]

\* ---- Config --------------------------------------------------------------
CHANNELS == <<"UPI", "NEFT", "IMPS", "ATM", "RTGS", "Mobile Banking", "Net Banking">>

START_DATE == <<2024, 1, 1, 0, 0, 0>>
END_DATE == <<2024, 6, 30, 0, 0, 0>>

IsLeap(y) == (y % 4 = 0 /\ y % 100 # 0) \/ y % 400 = 0

MonthLen(y, m) == IF m = 2 THEN (IF IsLeap(y) THEN 29 ELSE 28)
                  ELSE IF m \in {4, 6, 9, 11} THEN 30 ELSE 31

RECURSIVE DaysBeforeMonth(_, _)
DaysBeforeMonth(y, m) == IF m = 1 THEN 0
                         ELSE DaysBeforeMonth(y, m - 1) + MonthLen(y, m - 1)

\* day of the year, 1-based
YearDay(dt) == DaysBeforeMonth(dt[1], dt[2]) + dt[3]

RECURSIVE FromYearDay(_, _, _)
FromYearDay(y, m, n) == IF n <= MonthLen(y, m) THEN <<y, m, n>>
                        ELSE FromYearDay(y, m + 1, n - MonthLen(y, m))

\* (END_DATE - START_DATE).days ; both dates lie in the same year
TOTAL_DAYS == YearDay(END_DATE) - YearDay(START_DATE)

\* dt + timedelta(days, hours, minutes, seconds), within the year of dt
AddDelta(dt, days, hours, minutes, seconds) ==
  LET secs == (dt[4] + hours) * 3600 + (dt[5] + minutes) * 60 + dt[6] + seconds
      yd   == YearDay(dt) + days + (secs \div 86400)
      rem  == secs % 86400
      date == FromYearDay(dt[1], 1, yd)
  IN <<date[1], date[2], date[3], rem \div 3600, (rem % 3600) \div 60, rem % 60>>

\* ts.strftime("%Y-%m-%d %H:%M:%S"), as the sequence of its digits
Strftime(dt) == ZFill(Str(dt[1]), 4) \o ZFill(Str(dt[2]), 2) \o ZFill(Str(dt[3]), 2)
                \o ZFill(Str(dt[4]), 2) \o ZFill(Str(dt[5]), 2) \o ZFill(Str(dt[6]), 2)

NORMAL_IDS == [i \in 1..N_NORMAL |-> Id("ACC", i, 5)]
MULE_IDS == [i \in 1..N_MULE |-> Id("MUL", i, 5)]
EXTERNAL_IDS == [i \in 1..N_EXTERNAL |-> Id("EXT", i, 5)]
ALL_ACCOUNT_IDS == NORMAL_IDS \o MULE_IDS

\* Mule subtypes: contiguous literal slices of MULE_IDS (one per subtype here)
COMPLICIT_MULES == SubSeq(MULE_IDS, 1, 1)
RECRUITED_MULES == SubSeq(MULE_IDS, 2, 2)
EXPLOITED_MULES == SubSeq(MULE_IDS, 3, 3)

\* the criminal receivers sampled from the whole external pool
CriminalPoolUnsliced == EXTERNAL_IDS

\* EXTERNAL_IDS[:20], [20:35], [35:], [:15]
CriminalPool == SubSeq(EXTERNAL_IDS, 1, NCriminalPool)
HandlerPool == SubSeq(EXTERNAL_IDS, NCriminalPool + 1, NCriminalPool + NHandlerPool)
AttackerPool == SubSeq(EXTERNAL_IDS, NCriminalPool + NHandlerPool + 1, N_EXTERNAL)
ForwardPool == MULE_IDS \o SubSeq(EXTERNAL_IDS, 1, NForwardPool)

\* ---- Random draws --------------------------------------------------------
\* The seeded generators are modelled by existential draws.  To keep the
\* reachable set finite and small, one run enumerates the edge values of one
\* kind of draw in one stage (focus); every other draw takes the first value
\* of its range.
Stages == {"normal", "complicit", "recruited", "exploited"}
Kinds == {"time", "party", "amount", "count", "type"}

InFocus(stage, kind) == focus.stage = stage /\ focus.kind = kind

\* random.randint(1, n) for a loop count (the source's lower bounds are >= 1)
Counts(stage) == IF InFocus(stage, "count") THEN 1..MaxBatch ELSE {1}

\* random.choice(seq) for a counterparty
ChoiceOf(stage, seq) == IF InFocus(stage, "party") THEN Range(seq) ELSE {seq[1]}

\* random.choice(seq) for a channel: the first and the last of the list
ChannelOf(stage, seq) == IF InFocus(stage, "amount") THEN {seq[1], seq[Len(seq)]} ELSE {seq[1]}

\* random.choice(["credit", "debit"])
TypeOf(stage) == IF InFocus(stage, "type") THEN {"credit", "debit"} ELSE {"credit"}

\* random.sample(pool, k): k distinct elements in a random order
InjSeqs(pool, k) ==
  {[i \in 1..k |-> pool[f[i]]] :
     f \in {g \in [1..k -> 1..Len(pool)] : \A i, j \in 1..k : i # j => g[i] # g[j]}}

SampleOf(stage, pool) ==
  IF InFocus(stage, "party")
  THEN UNION {InjSeqs(pool, k) : k \in 1..Min(MaxSample, Len(pool))}
  ELSE {<<pool[1]>>}

\* np.random.lognormal(...), in thousandths of a rupee
LogNormalOf(stage) == IF InFocus(stage, "amount") THEN {1234565, 13359727} ELSE {13359727}

\* random.uniform(lo, hi) for an amount, in thousandths of a rupee
UniformOf(stage, lo, hi) ==
  IF InFocus(stage, "amount") THEN {lo * 1000, lo * 1000 + 1500005, hi * 1000}
  ELSE {lo * 1000 + 1500005}

\* random.uniform(lo/100, hi/100) for a skim factor, in percent
FactorOf(stage, lo, hi) ==
  IF InFocus(stage, "amount") THEN {lo, (lo + hi) \div 2, hi} ELSE {(lo + hi) \div 2}

\* random.random() < p
FlagOf(stage, kinds) == IF focus.stage = stage /\ focus.kind \in kinds THEN BOOLEAN ELSE {FALSE}

\* the hours rand_ts draws from: randint(8, 22), and [23] + [0..4] under the
\* 70% night coin; the edge values of each.  Minute and second are drawn at
\* their edges 0 and 59, together.
DayHours == {8, 22}
NightHours == {23, 0, 4}

None == -1

\* ---- Functions -----------------------------------------------------------
\* rand_ts(start_day, end_day, night_bias): the timestamps it can return
rand_ts(stage, start_day, end_day, night_bias) ==
  LET last == IF end_day = None THEN TOTAL_DAYS ELSE end_day
      draws == IF InFocus(stage, "time")
               THEN {[day |-> day, hour |-> hour, minute |-> ms, second |-> ms] :
                       day \in {start_day, last},
                       hour \in IF night_bias THEN NightHours \cup DayHours ELSE DayHours,
                       ms \in {0, 59}}
               ELSE {[day |-> start_day, hour |-> 8, minute |-> 0, second |-> 0]}
  IN {AddDelta(START_DATE, d.day, d.hour, d.minute, d.second) : d \in draws}

\* Python's round(): nearest, ties to even (n >= 0, d > 0)
RoundHalfEven(n, d) ==
  LET q == n \div d
      r == n % d
  IN IF 2 * r < d THEN q
     ELSE IF 2 * r > d THEN q + 1
     ELSE IF q % 2 = 0 THEN q ELSE q + 1

\* round(x, 2) of x = n/per rupees (per a multiple of 100)
Round2(n, per) == [n |-> RoundHalfEven(n, per \div 100), per |-> 100]

\* round_amount: with the 25% coin, round(amount / 1000) * 1000
round_amount(n, per, coin) ==
  IF coin THEN [n |-> RoundHalfEven(n, 1000 * per) * 1000 * 100, per |-> 100]
  ELSE Round2(n, per)

\* amount * factor, factor in percent: exact product, no rounding
Times(a, pct) == [n |-> a.n * pct, per |-> a.per * 100]

\* add_txn with the counter left where it was
add_txn_same_counter(account_id, txn_type, amt, channel, counterparty, ts, is_mule, mule_type) ==
  /\ transactions' = Append(transactions,
       [txn_id       |-> Id("TXN", txn_counter, 8),
        timestamp    |-> Strftime(ts),
        account_id   |-> account_id,
        txn_type     |-> txn_type,
        amount       |-> amt,
        channel      |-> channel,
        counterparty |-> counterparty,
        is_mule      |-> is_mule,
        mule_type    |-> mule_type])
  /\ txn_counter' = txn_counter

\* add_txn labelling by subtype instead of by the is_mule argument
add_txn_flag_by_type(account_id, txn_type, amt, channel, counterparty, ts, is_mule, mule_type) ==
  /\ transactions' = Append(transactions,
       [txn_id       |-> Id("TXN", txn_counter, 8),
        timestamp    |-> Strftime(ts),
        account_id   |-> account_id,
        txn_type     |-> txn_type,
        amount       |-> amt,
        channel      |-> channel,
        counterparty |-> counterparty,
        is_mule      |-> IF mule_type = "none" THEN 0 ELSE 1,
        mule_type    |-> mule_type])
  /\ txn_counter' = txn_counter + 1

\* add_txn
add_txn(account_id, txn_type, amt, channel, counterparty, ts, is_mule, mule_type) ==
  /\ transactions' = Append(transactions,
       [txn_id       |-> Id("TXN", txn_counter, 8),
        timestamp    |-> Strftime(ts),
        account_id   |-> account_id,
        txn_type     |-> txn_type,
        amount       |-> amt,
        channel      |-> channel,
        counterparty |-> counterparty,
        is_mule      |-> is_mule,
        mule_type    |-> mule_type])
  /\ txn_counter' = txn_counter + 1

\* ---- Initial state -------------------------------------------------------
NoId == [pfx |-> "", num |-> <<>>]

Init ==
  /\ focus \in [stage : Stages, kind : Kinds]
  /\ pc = "normal"
  /\ ai = 0
  /\ acc = NoId
  /\ si = 0
  /\ n_left = 0
  /\ n_credits = 0
  /\ amount = [n |-> 0, per |-> 100]
  /\ criminal_receivers = <<>>
  /\ victim_senders = <<>>
  /\ criminal_handlers = <<>>
  /\ attacker_destinations = <<>>
  /\ takeover_day = 0
  /\ transactions = <<>>
  /\ txn_counter = 1
  /\ df = <<>>

\* ---- Normal accounts (lines 85-93) ---------------------------------------
NormalAcc ==
  /\ pc = "normal" /\ n_left = 0 /\ ai < Len(NORMAL_IDS)
  /\ ai' = ai + 1
  /\ acc' = NORMAL_IDS[ai + 1]
  /\ n_left' \in Counts("normal")
  /\ UNCHANGED <<focus, pc, si, n_credits, amount, criminal_receivers, victim_senders,
                 criminal_handlers, attacker_destinations, takeover_day,
                 transactions, txn_counter, df>>

NormalTxn ==
  /\ pc = "normal" /\ n_left > 0
  /\ \E ts \in rand_ts("normal", 0, None, FALSE),
        txn_type \in TypeOf("normal"),
        counterparty \in ChoiceOf("normal", SelectSeq(ALL_ACCOUNT_IDS, LAMBDA a : a # acc)),
        raw \in LogNormalOf("normal"),
        channel \in ChannelOf("normal", CHANNELS) :
       /\ amount' = Round2(raw, 1000)
       /\ add_txn(acc, txn_type, amount', channel, counterparty, ts, 0, "none")
  /\ n_left' = n_left - 1
  /\ UNCHANGED <<focus, pc, ai, acc, si, n_credits, criminal_receivers, victim_senders,
                 criminal_handlers, attacker_destinations, takeover_day, df>>

NormalExit ==
  /\ pc = "normal" /\ n_left = 0 /\ ai = Len(NORMAL_IDS)
  /\ pc' = "complicit"
  /\ ai' = 0
  /\ UNCHANGED <<focus, acc, si, n_left, n_credits, amount, criminal_receivers,
                 victim_senders, criminal_handlers, attacker_destinations, takeover_day,
                 transactions, txn_counter, df>>

\* ---- Complicit mules (lines 99-121) --------------------------------------
ComplicitAcc ==
  /\ pc = "complicit" /\ ai < Len(COMPLICIT_MULES)
  /\ ai' = ai + 1
  /\ acc' = COMPLICIT_MULES[ai + 1]
  /\ criminal_receivers' \in SampleOf("complicit", CriminalPool)
  /\ victim_senders' \in SampleOf("complicit", NORMAL_IDS)
  /\ si' = 0
  /\ pc' = "comp_sender"
  /\ UNCHANGED <<focus, n_left, n_credits, amount, criminal_handlers,
                 attacker_destinations, takeover_day, transactions, txn_counter, df>>

\* head of `for sender in victim_senders`: next sender, draw n_credits
CompSender ==
  /\ pc = "comp_sender" /\ si < Len(victim_senders)
  /\ si' = si + 1
  /\ n_credits' \in Counts("complicit")
  /\ n_left' = n_credits'
  /\ pc' = "comp_credit"
  /\ UNCHANGED <<focus, ai, acc, amount, criminal_receivers, victim_senders,
                 criminal_handlers, attacker_destinations, takeover_day,
                 transactions, txn_counter, df>>

CompCredit ==
  /\ pc = "comp_credit" /\ n_left > 0
  /\ \E ts \in rand_ts("complicit", TOTAL_DAYS - 60, None, TRUE),
        raw \in UniformOf("complicit", 20000, 200000),
        coin \in FlagOf("complicit", {"amount"}),
        channel \in ChannelOf("complicit", <<"UPI", "NEFT", "IMPS">>) :
       /\ amount' = round_amount(raw, 1000, coin)
       /\ add_txn(acc, "credit", amount', channel, victim_senders[si], ts, 1, "complicit")
  /\ n_left' = n_left - 1
  /\ UNCHANGED <<focus, pc, ai, acc, si, n_credits, criminal_receivers, victim_senders,
                 criminal_handlers, attacker_destinations, takeover_day, df>>

\* one forward too many
ForwardCountPlusOne(n) == n + 1

\* the forward loop runs range(n_credits) again
ForwardCount(n) == n

CompCreditExit ==
  /\ pc = "comp_credit" /\ n_left = 0
  /\ n_left' = ForwardCount(n_credits)
  /\ pc' = "comp_debit"
  /\ UNCHANGED <<focus, ai, acc, si, n_credits, amount, criminal_receivers,
                 victim_senders, criminal_handlers, attacker_destinations, takeover_day,
                 transactions, txn_counter, df>>

\* the skim forwarded instead of the remainder
AmountOutSkimOnly(a, pct, coin) ==
  round_amount(Times(a, 100 - pct).n, Times(a, 100 - pct).per, coin)

\* amount_out = round_amount(amount * random.uniform(0.92, 0.99))
AmountOut(a, pct, coin) == round_amount(Times(a, pct).n, Times(a, pct).per, coin)

CompDebit ==
  /\ pc = "comp_debit" /\ n_left > 0
  /\ \E ts_forward \in rand_ts("complicit", TOTAL_DAYS - 60, None, TRUE),
        pct \in FactorOf("complicit", 92, 99),
        coin \in FlagOf("complicit", {"amount"}),
        receiver \in ChoiceOf("complicit", criminal_receivers),
        out_channel \in ChannelOf("complicit", <<"NEFT", "RTGS", "Net Banking">>) :
       add_txn(acc, "debit", AmountOut(amount, pct, coin), out_channel, receiver,
               ts_forward, 1, "complicit")
  /\ n_left' = n_left - 1
  /\ UNCHANGED <<focus, pc, ai, acc, si, n_credits, amount, criminal_receivers,
                 victim_senders, criminal_handlers, attacker_destinations, takeover_day, df>>

CompDebitExit ==
  /\ pc = "comp_debit" /\ n_left = 0
  /\ pc' = "comp_sender"
  /\ UNCHANGED <<focus, ai, acc, si, n_left, n_credits, amount, criminal_receivers,
                 victim_senders, criminal_handlers, attacker_destinations, takeover_day,
                 transactions, txn_counter, df>>

CompSenderExit ==
  /\ pc = "comp_sender" /\ si = Len(victim_senders)
  /\ pc' = "complicit"
  /\ UNCHANGED <<focus, ai, acc, si, n_left, n_credits, amount, criminal_receivers,
                 victim_senders, criminal_handlers, attacker_destinations, takeover_day,
                 transactions, txn_counter, df>>

ComplicitExit ==
  /\ pc = "complicit" /\ ai = Len(COMPLICIT_MULES)
  /\ pc' = "recruited"
  /\ ai' = 0
  /\ UNCHANGED <<focus, acc, si, n_left, n_credits, amount, criminal_receivers,
                 victim_senders, criminal_handlers, attacker_destinations, takeover_day,
                 transactions, txn_counter, df>>

\* ---- Recruited mules (lines 127-154) -------------------------------------
RecruitedAcc ==
  /\ pc = "recruited" /\ ai < Len(RECRUITED_MULES)
  /\ ai' = ai + 1
  /\ acc' = RECRUITED_MULES[ai + 1]
  /\ criminal_handlers' \in SampleOf("recruited", HandlerPool)
  /\ n_left' \in Counts("recruited")
  /\ pc' = "rec_p1"
  /\ UNCHANGED <<focus, si, n_credits, amount, criminal_receivers, victim_senders,
                 attacker_destinations, takeover_day, transactions, txn_counter, df>>

\* Phase 1: rand_ts(start_day=0, end_day=60)
RecruitedP1Ts == rand_ts("recruited", 0, 60, FALSE)

RecP1 ==
  /\ pc = "rec_p1" /\ n_left > 0
  /\ \E ts \in RecruitedP1Ts,
        txn_type \in TypeOf("recruited"),
        counterparty \in ChoiceOf("recruited", NORMAL_IDS),
        raw \in LogNormalOf("recruited"),
        channel \in ChannelOf("recruited", CHANNELS) :
       /\ amount' = Round2(raw, 1000)
       /\ add_txn(acc, txn_type, amount', channel, counterparty, ts, 0, "recruited")
  /\ n_left' = n_left - 1
  /\ UNCHANGED <<focus, pc, ai, acc, si, n_credits, criminal_receivers, victim_senders,
                 criminal_handlers, attacker_destinations, takeover_day, df>>

RecP1Exit ==
  /\ pc = "rec_p1" /\ n_left = 0
  /\ n_left' \in Counts("recruited")
  /\ pc' = "rec_p2"
  /\ UNCHANGED <<focus, ai, acc, si, n_credits, amount, criminal_receivers,
                 victim_senders, criminal_handlers, attacker_destinations, takeover_day,
                 transactions, txn_counter, df>>

\* Phase 2 starting on the last day of Phase 1
RecruitedP2TsFromDay60 == rand_ts("recruited", 60, None, TRUE)

\* Phase 2: rand_ts(start_day=61, night_bias=True)
RecruitedP2Ts == rand_ts("recruited", 61, None, TRUE)

\* random.choice(MULE_IDS + EXTERNAL_IDS[:15])
ForwardReceivers == ChoiceOf("recruited", ForwardPool)

RecP2 ==
  /\ pc = "rec_p2" /\ n_left > 0
  /\ \E ts \in RecruitedP2Ts,
        raw \in UniformOf("recruited", 15000, 150000),
        coin \in FlagOf("recruited", {"amount"}),
        receive \in FlagOf("recruited", {"type", "party", "amount"}) :
       /\ amount' = round_amount(raw, 1000, coin)
       /\ IF receive
          THEN \E sender \in ChoiceOf("recruited", criminal_handlers),
                  channel \in ChannelOf("recruited", <<"UPI", "IMPS">>) :
                 add_txn(acc, "credit", amount', channel, sender, ts, 1, "recruited")
          ELSE \E receiver \in ForwardReceivers,
                  pct \in FactorOf("recruited", 88, 98),
                  channel \in ChannelOf("recruited", <<"NEFT", "ATM", "Net Banking">>) :
                 add_txn(acc, "debit", Times(amount', pct), channel, receiver, ts,
                         1, "recruited")
  /\ n_left' = n_left - 1
  /\ UNCHANGED <<focus, pc, ai, acc, si, n_credits, criminal_receivers, victim_senders,
                 criminal_handlers, attacker_destinations, takeover_day, df>>

RecP2Exit ==
  /\ pc = "rec_p2" /\ n_left = 0
  /\ pc' = "recruited"
  /\ UNCHANGED <<focus, ai, acc, si, n_left, n_credits, amount, criminal_receivers,
                 victim_senders, criminal_handlers, attacker_destinations, takeover_day,
                 transactions, txn_counter, df>>

RecruitedExit ==
  /\ pc = "recruited" /\ ai = Len(RECRUITED_MULES)
  /\ pc' = "exploited"
  /\ ai' = 0
  /\ UNCHANGED <<focus, acc, si, n_left, n_credits, amount, criminal_receivers,
                 victim_senders, criminal_handlers, attacker_destinations, takeover_day,
                 transactions, txn_counter, df>>

\* ---- Exploited mules (lines 160-181) -------------------------------------
ExploitedAcc ==
  /\ pc = "exploited" /\ ai < Len(EXPLOITED_MULES)
  /\ ai' = ai + 1
  /\ acc' = EXPLOITED_MULES[ai + 1]
  /\ attacker_destinations' \in SampleOf("exploited", AttackerPool)
  /\ n_left' \in Counts("exploited")
  /\ pc' = "exp_p1"
  /\ UNCHANGED <<focus, si, n_credits, amount, criminal_receivers, victim_senders,
                 criminal_handlers, takeover_day, transactions, txn_counter, df>>

\* Phase 1: rand_ts(start_day=0, end_day=90)
ExploitedP1Ts == rand_ts("exploited", 0, 90, FALSE)

ExpP1 ==
  /\ pc = "exp_p1" /\ n_left > 0
  /\ \E ts \in ExploitedP1Ts,
        txn_type \in TypeOf("exploited"),
        counterparty \in ChoiceOf("exploited", NORMAL_IDS),
        raw \in LogNormalOf("exploited"),
        channel \in ChannelOf("exploited", <<"UPI", "Mobile Banking">>) :
       /\ amount' = Round2(raw, 1000)
       /\ add_txn(acc, txn_type, amount', channel, counterparty, ts, 0, "exploited")
  /\ n_left' = n_left - 1
  /\ UNCHANGED <<focus, pc, ai, acc, si, n_credits, criminal_receivers, victim_senders,
                 criminal_handlers, attacker_destinations, takeover_day, df>>

\* takeover_day = random.randint(91, 120)
TakeoverDays == IF InFocus("exploited", "time") THEN {91, 120} ELSE {91}

ExpP1Exit ==
  /\ pc = "exp_p1" /\ n_left = 0
  /\ takeover_day' \in TakeoverDays
  /\ n_left' \in Counts("exploited")
  /\ pc' = "exp_p2"
  /\ UNCHANGED <<focus, ai, acc, si, n_credits, amount, criminal_receivers,
                 victim_senders, criminal_handlers, attacker_destinations,
                 transactions, txn_counter, df>>

ExpP2 ==
  /\ pc = "exp_p2" /\ n_left > 0
  /\ \E ts \in rand_ts("exploited", takeover_day, takeover_day + 3, TRUE),
        raw \in UniformOf("exploited", 50000, 500000),
        coin \in FlagOf("exploited", {"amount"}),
        dest \in ChoiceOf("exploited", attacker_destinations),
        channel \in ChannelOf("exploited", <<"RTGS", "Net Banking", "NEFT">>) :
       /\ amount' = round_amount(raw, 1000, coin)
       /\ add_txn(acc, "debit", amount', channel, dest, ts, 1, "exploited")
  /\ n_left' = n_left - 1
  /\ UNCHANGED <<focus, pc, ai, acc, si, n_credits, criminal_receivers, victim_senders,
                 criminal_handlers, attacker_destinations, takeover_day, df>>

ExpP2Exit ==
  /\ pc = "exp_p2" /\ n_left = 0
  /\ pc' = "exploited"
  /\ UNCHANGED <<focus, ai, acc, si, n_left, n_credits, amount, criminal_receivers,
                 victim_senders, criminal_handlers, attacker_destinations, takeover_day,
                 transactions, txn_counter, df>>

ExploitedExit ==
  /\ pc = "exploited" /\ ai = Len(EXPLOITED_MULES)
  /\ pc' = "save"
  /\ UNCHANGED <<focus, ai, acc, si, n_left, n_credits, amount, criminal_receivers,
                 victim_senders, criminal_handlers, attacker_destinations, takeover_day,
                 transactions, txn_counter, df>>

\* ---- Save (lines 184-188) ------------------------------------------------
\* sort_values("timestamp") compares the timestamp strings and uses the default
\* kind="quicksort", which is not stable: the order in which rows of equal
\* timestamp come out is not determined by the script.  The model draws it
\* from the two extreme tie orders.
TieOrders == {"emission", "reverse"}

InsertRow(s, r, tie) ==
  LET k == Cardinality({i \in 1..Len(s) :
                          \/ LexLess(s[i].timestamp, r.timestamp)
                          \/ (tie = "emission" /\ s[i].timestamp = r.timestamp)})
  IN SubSeq(s, 1, k) \o <<r>> \o SubSeq(s, k + 1, Len(s))

RECURSIVE SortFrom(_, _, _, _)
SortFrom(t, i, sorted, tie) ==
  IF i > Len(t) THEN sorted ELSE SortFrom(t, i + 1, InsertRow(sorted, t[i], tie), tie)

\* no sort at all
sort_values_skipped(t, tie) == t

sort_values(t, tie) == SortFrom(t, 1, <<>>, tie)

Save ==
  /\ pc = "save"
  /\ \E tie \in TieOrders : df' = sort_values(transactions, tie)
  /\ pc' = "done"
  /\ UNCHANGED <<focus, ai, acc, si, n_left, n_credits, amount, criminal_receivers,
                 victim_senders, criminal_handlers, attacker_destinations, takeover_day,
                 transactions, txn_counter>>

Next ==
  \/ NormalAcc \/ NormalTxn \/ NormalExit
  \/ ComplicitAcc \/ CompSender \/ CompCredit \/ CompCreditExit \/ CompDebit
  \/ CompDebitExit \/ CompSenderExit \/ ComplicitExit
  \/ RecruitedAcc \/ RecP1 \/ RecP1Exit \/ RecP2 \/ RecP2Exit \/ RecruitedExit
  \/ ExploitedAcc \/ ExpP1 \/ ExpP1Exit \/ ExpP2 \/ ExpP2Exit \/ ExploitedExit
  \/ Save

Spec == Init /\ [][Next]_vars

\* ==== Properties ==========================================================
Rows == 1..Len(transactions)

InCompStage == pc \in {"comp_sender", "comp_credit", "comp_debit"}

MuleBatches == {"comp_credit", "comp_debit", "rec_p2", "exp_p2"}

\* C1: every emitted timestamp lies in the window, START_DATE <= timestamp <=
\* END_DATE (both ends inclusive), compared on the formatted timestamps.
C1_TimestampInWindow ==
  \A i \in Rows :
    /\ LexLeq(Strftime(START_DATE), transactions[i].timestamp)
    /\ LexLeq(transactions[i].timestamp, Strftime(END_DATE))

\* C2: a row is emitted with is_mule = 1 exactly when its mule_type is not
\* "none" and it is emitted by a mule-specific batch (the complicit loops,
\* recruited Phase 2, exploited Phase 2) for an account of the mule set.
C2_IsMuleIffMuleBatch ==
  [][transactions' # transactions =>
       LET r == transactions'[Len(transactions')]
       IN (r.is_mule = 1) <=> (/\ r.mule_type # "none"
                               /\ pc \in MuleBatches
                               /\ r.account_id \in Range(MULE_IDS))]_vars

C2_Witness ==
  /\ \E i \in Rows : transactions[i].is_mule = 0 /\ transactions[i].mule_type = "recruited"
  /\ \E i \in Rows : transactions[i].is_mule = 1 /\ transactions[i].mule_type = "recruited"
  /\ \E i \in Rows : transactions[i].is_mule = 0 /\ transactions[i].mule_type = "none"

\* C3: the k-th emitted record carries the counter value k in its txn_id, the
\* txn_id strings are strictly increasing in emission order (hence pairwise
\* distinct), and the counter is ahead of every value already used.
C3_TxnIdsSequential ==
  /\ txn_counter = Len(transactions) + 1
  /\ \A k \in Rows :
       /\ transactions[k].txn_id.pfx = "TXN"
       /\ Len(transactions[k].txn_id.num) = 8
       /\ DigitsValue(transactions[k].txn_id.num) = k
  /\ \A i, j \in Rows :
       i < j => LexLess(transactions[i].txn_id.num, transactions[j].txn_id.num)

C3_Witness == Len(transactions) >= 4 /\ pc = "done"

\* C4 (as claimed): the output is the emitted records sorted by timestamp with
\* equal timestamps kept in emission order (a stable sort).
C4_StableSorted ==
  pc = "done" => df = sort_values(transactions, "emission")

\* C4 (amended): the output is a permutation of the emitted records in
\* non-decreasing timestamp order; nothing is said about rows of equal timestamp.
C4_SortedPermutation ==
  pc = "done" =>
    /\ Len(df) = Len(transactions)
    /\ Range(df) = Range(transactions)
    /\ \A i, j \in 1..Len(df) : i < j => LexLeq(df[i].timestamp, df[j].timestamp)

C4_Witness ==
  /\ pc = "done"
  /\ df # transactions
  /\ \E i, j \in Rows : i < j /\ LexLess(transactions[j].timestamp, transactions[i].timestamp)
  /\ \E i, j \in Rows : i < j /\ transactions[j].timestamp = transactions[i].timestamp

\* C5: for a complicit mule, debits emitted = credits emitted at the end of
\* every per-sender iteration; inside a batch no debit is emitted while the
\* credits are being emitted, and the forwards still to come equal the credits
\* not yet forwarded.
CountRows(a, t) ==
  Cardinality({i \in Rows : transactions[i].account_id = a /\ transactions[i].txn_type = t})

C5_PairedForwarding ==
  \A a \in Range(COMPLICIT_MULES) :
    /\ (pc = "comp_sender" \/ ~InCompStage \/ a # acc) =>
          CountRows(a, "debit") = CountRows(a, "credit")
    /\ (pc = "comp_credit" /\ a = acc) =>
          CountRows(a, "debit") + (n_credits - n_left) = CountRows(a, "credit")
    /\ (pc = "comp_debit" /\ a = acc) =>
          CountRows(a, "credit") - CountRows(a, "debit") = n_left

C5_Witness ==
  /\ pc = "comp_sender" /\ si = Len(victim_senders)
  /\ n_credits = MaxBatch
  /\ CountRows(acc, "debit") = MaxBatch

\* the complicit debit rows, and for each the inbound credits of its batch:
\* the credits of the same account from the sender of the last credit before it
CompDebits ==
  {i \in Rows : transactions[i].mule_type = "complicit" /\ transactions[i].txn_type = "debit"}

CreditsBefore(i) ==
  {j \in 1..(i - 1) : /\ transactions[j].account_id = transactions[i].account_id
                      /\ transactions[j].txn_type = "credit"}

LastCredit(i) == CHOOSE j \in CreditsBefore(i) : \A k \in CreditsBefore(i) : k <= j

BatchCredits(i) ==
  {j \in CreditsBefore(i) :
     transactions[j].counterparty = transactions[LastCredit(i)].counterparty}

\* C6 (as claimed): every complicit debit amount d has an inbound credit of its
\* batch with recorded amount a such that 0.92*a <= d <= 0.99*a (amounts in
\* paise, so 92*a <= 100*d <= 99*a).
C6_DebitWithinSkim ==
  \A i \in CompDebits :
    \E j \in BatchCredits(i) :
      /\ 92 * transactions[j].amount.n <= 100 * transactions[i].amount.n
      /\ 100 * transactions[i].amount.n <= 99 * transactions[j].amount.n

\* C6 (amended): every complicit debit amount d is round_amount of a value in
\* [0.92*a, 0.99*a], a the recorded amount of the last credit of its batch:
\* either d is within half a paisa of that interval, or d is a multiple of
\* 1000 rupees within 500 rupees of it.
C6_DebitWithinSkimUpToRounding ==
  \A i \in CompDebits :
    LET a == transactions[LastCredit(i)].amount.n
        d == transactions[i].amount.n
    IN /\ CreditsBefore(i) # {}
       /\ transactions[i].amount.per = 100
       /\ \/ 92 * a - 50 <= 100 * d /\ 100 * d <= 99 * a + 50
          \/ /\ d % 100000 = 0
             /\ 92 * a - 5000000 <= 100 * d /\ 100 * d <= 99 * a + 5000000

C6_Witness ==
  \E i \in CompDebits :
    /\ transactions[i].amount.n % 100000 = 0
    /\ 100 * transactions[i].amount.n > 99 * transactions[LastCredit(i)].amount.n

\* C7: a recruited mule's Phase-2 debit goes to an external identifier or to a
\* mule other than the row's own account.
C7_NoSelfForward ==
  \A i \in Rows :
    (/\ transactions[i].mule_type = "recruited"
     /\ transactions[i].is_mule = 1
     /\ transactions[i].txn_type = "debit") =>
       /\ transactions[i].counterparty.pfx \in {"EXT", "MUL"}
       /\ transactions[i].counterparty # transactions[i].account_id

\* C8: every counterparty of a complicit debit is one of the first
\* NCriminalPool external identifiers, is no normal or mule identifier, and,
\* while its mule is being generated, is one of that mule's criminal_receivers.
C8_ComplicitReceiversReserved ==
  \A i \in CompDebits :
    LET cp == transactions[i].counterparty
    IN /\ cp.pfx = "EXT"
       /\ Len(cp.num) = 5
       /\ DigitsValue(cp.num) \in 1..NCriminalPool
       /\ cp \notin Range(NORMAL_IDS) \cup Range(MULE_IDS)
       /\ (InCompStage /\ transactions[i].account_id = acc) =>
             cp \in Range(criminal_receivers)

C8_Witness ==
  \E i \in CompDebits :
    /\ DigitsValue(transactions[i].counterparty.num) = NCriminalPool
    /\ Len(criminal_receivers) = 2

\* C10: for every recruited or exploited mule, each of its rows with
\* is_mule = 0 has a timestamp strictly earlier than each of its rows with
\* is_mule = 1.
C10_LegitBeforeMule ==
  \A i, j \in Rows :
    (/\ transactions[i].account_id = transactions[j].account_id
     /\ transactions[i].mule_type \in {"recruited", "exploited"}
     /\ transactions[i].is_mule = 0
     /\ transactions[j].is_mule = 1) =>
       LexLess(transactions[i].timestamp, transactions[j].timestamp)

\* the latest Phase-1 row a recruited mule can get, next to the earliest
\* Phase-2 row
C10_Witness ==
  \E i, j \in Rows :
    /\ transactions[i].account_id = transactions[j].account_id
    /\ transactions[i].mule_type = "recruited"
    /\ transactions[i].is_mule = 0
    /\ transactions[j].is_mule = 1
    /\ transactions[i].timestamp = Strftime(AddDelta(START_DATE, 60, 22, 59, 59))
    /\ transactions[j].timestamp = Strftime(AddDelta(START_DATE, 61, 0, 0, 0))

====
